---- MODULE Spec2Model ----
(***************************************************************************)
(* Model of the chemics molecular-formula parser (molecular_weight.py), of *)
(* the chemical-equation evaluator (chemical_equation.py), of flow_regime  *)
(* (dimensionless_numbers.py) and of the Gas class (gas.py).               *)
(*                                                                         *)
(* Strings are sequences of one-character strings.  Floating-point values  *)
(* are exact fixed-point integers: atomic weights and masses in 1/1000     *)
(* g/mol, mole numbers and atom counts in 1/MolScale.                      *)
(***************************************************************************)
EXTENDS Integers, Sequences, FiniteSets, TLC

VARIABLES
    pc,               \* position of the caller: "ready" (inputs drawn) or "done"
    formula,          \* the string passed to mw
    result,           \* what the last mw call produced (a weight or an exception)
    stack,            \* the top-level list object mw handed to _parse, as the call left it
    atomic_elements,  \* the module-level atomic-weight table
    eq,               \* the equation text passed to ChemicalEquation
    names,            \* the names mapping passed to ChemicalEquation (None or a dict)
    ce,               \* the constructed ChemicalEquation object (or the exception raised)
    calls,            \* number of calls made so far
    call,             \* the last call: its operation and the arguments as passed
    props,            \* what the last reactant_props / product_props call produced
    args,             \* the arguments passed to flow_regime
    gas               \* the Gas object: its attributes and the three correlation states

vars == <<pc, formula, result, stack, atomic_elements, eq, names, ce, calls, call,
          props, args, gas>>

(***************************************************************************)
(* Bounds of the model.                                                    *)
(***************************************************************************)
MaxLen == 5        \* longest formula string drawn exhaustively over Alphabet
MaxItems == 2      \* most items on one side of an equation
MaxCalls == 3      \* longest sequence of calls

(***************************************************************************)
(* Characters.                                                             *)
(***************************************************************************)
Upper == {"A","B","C","D","E","F","G","H","I","J","K","L","M",
          "N","O","P","Q","R","S","T","U","V","W","X","Y","Z"}
Lower == {"a","b","c","d","e","f","g","h","i","j","k","l","m",
          "n","o","p","q","r","s","t","u","v","w","x","y","z"}
Digit == {"0","1","2","3","4","5","6","7","8","9"}
DigitVal == ("0" :> 0) @@ ("1" :> 1) @@ ("2" :> 2) @@ ("3" :> 3) @@ ("4" :> 4) @@
            ("5" :> 5) @@ ("6" :> 6) @@ ("7" :> 7) @@ ("8" :> 8) @@ ("9" :> 9)

\* The characters formulas are drawn from: two elements with an atomic weight
\* (C, O), a letter that makes a null-weight element (Cm) or an unknown one
\* (Om, Cmm) or stands alone (m), a digit, both parentheses and a space.
Alphabet == {"C", "O", "m", "2", "(", ")", " "}

\* None, the atomic weight of an element without one (weights are positive).
None == -1

\* elements.py: the rows of the table whose symbols can be written with the
\* letters used here (weights in 1/1000 g/mol).
ElementTable ==
    (<<"H">> :> 1008) @@ (<<"C">> :> 12011) @@ (<<"O">> :> 15999) @@
    (<<"N", "a">> :> 22990) @@ (<<"C", "l">> :> 35450) @@
    (<<"C", "a">> :> 40078) @@
    (<<"C", "m">> :> None)

\* Results of a call: a value, or the exception it raised.
Returned(v) == [err |-> "", val |-> v]
Raised(e) == [err |-> e, val |-> 0]
NoResult == [err |-> "no call", val |-> 0]

(***************************************************************************)
(* molecular_weight.py                                                     *)
(***************************************************************************)

\* Last index of the maximal run of characters of class cls that starts at i
\* (i - 1 when s[i] is not in cls).
RECURSIVE RunEnd(_, _, _)
RunEnd(s, i, cls) ==
    IF i <= Len(s) /\ s[i] \in cls THEN RunEnd(s, i + 1, cls) ELSE i - 1

\* re.findall(r'[A-Z][a-z]*|\d+|\(|\)', formula) from position i on: the
\* non-overlapping matches left to right; a character that starts no match
\* is passed over.
RECURSIVE findall(_, _)
findall(s, i) ==
    IF i > Len(s) THEN <<>>
    ELSE IF s[i] \in Upper THEN
        LET j == RunEnd(s, i + 1, Lower)
        IN  <<SubSeq(s, i, j)>> \o findall(s, j + 1)
    ELSE IF s[i] \in Digit THEN
        LET j == RunEnd(s, i, Digit)
        IN  <<SubSeq(s, i, j)>> \o findall(s, j + 1)
    ELSE IF s[i] \in {"(", ")"} THEN <<<<s[i]>>>> \o findall(s, i + 1)
    ELSE findall(s, i + 1)

\* str.isdigit() of a token.
isdigit(t) == Len(t) > 0 /\ \A k \in 1..Len(t) : t[k] \in Digit

\* int(t) of a digit string.
RECURSIVE int(_)
int(t) == IF Len(t) = 0 THEN 0
          ELSE 10 * int(SubSeq(t, 1, Len(t) - 1)) + DigitVal[t[Len(t)]]

\* _find_end(tokens): index (1-based) of the first ')' at which the count of
\* parentheses returns to zero; 0 stands for raise ValueError.
RECURSIVE find_end_from(_, _, _)
find_end_from(tokens, idx, count) ==
    IF idx > Len(tokens) THEN 0
    ELSE IF tokens[idx] = <<")">> THEN
        IF count - 1 = 0 THEN idx ELSE find_end_from(tokens, idx + 1, count - 1)
    ELSE IF tokens[idx] = <<"(">> THEN find_end_from(tokens, idx + 1, count + 1)
    ELSE find_end_from(tokens, idx + 1, count)

\* Mutant: the first ')' whatever the nesting.
_find_end_first_close(tokens) ==
    IF \E k \in 1..Len(tokens) : tokens[k] = <<")">>
    THEN CHOOSE k \in 1..Len(tokens) :
            tokens[k] = <<")">> /\ \A j \in 1..(k - 1) : tokens[j] # <<")">>
    ELSE 0

\* Mutant: no error when the count never returns to zero; the group runs to
\* the end of the tokens.
_find_end_to_last(tokens) ==
    IF find_end_from(tokens, 1, 0) = 0 THEN Len(tokens) + 1
    ELSE find_end_from(tokens, 1, 0)

_find_end(tokens) == find_end_from(tokens, 1, 0)

\* sum(stack): a None in the list raises TypeError.
RECURSIVE SumSeq(_)
SumSeq(s) == IF Len(s) = 0 THEN 0 ELSE s[1] + SumSeq(Tail(s))

\* Mutant: a None in the list counts as 0.
sum_skip_none(stk) ==
    Returned(SumSeq([k \in 1..Len(stk) |-> IF stk[k] = None THEN 0 ELSE stk[k]]))

sum(stk) ==
    IF \E k \in 1..Len(stk) : stk[k] = None THEN Raised("TypeError")
    ELSE Returned(SumSeq(stk))

\* Mutant: the digits multiply the first entry of the list, not the last.
MulFirst(stk, t) ==
    IF Len(stk) = 0 THEN [err |-> "IndexError", stack |-> stk]
    ELSE IF stk[1] = None THEN [err |-> "TypeError", stack |-> stk]
    ELSE [err |-> "", stack |-> [stk EXCEPT ![1] = @ * int(t)]]

\* Mutant: digits that find the list empty are ignored.
MulTopOrSkip(stk, t) ==
    IF Len(stk) = 0 THEN [err |-> "", stack |-> stk]
    ELSE IF stk[Len(stk)] = None THEN [err |-> "TypeError", stack |-> stk]
    ELSE [err |-> "", stack |-> [stk EXCEPT ![Len(stk)] = @ * int(t)]]

\* stack[-1] *= int(t): IndexError on an empty list, TypeError on None.
MulTop(stk, t) ==
    IF Len(stk) = 0 THEN [err |-> "IndexError", stack |-> stk]
    ELSE IF stk[Len(stk)] = None THEN [err |-> "TypeError", stack |-> stk]
    ELSE [err |-> "", stack |-> [stk EXCEPT ![Len(stk)] = @ * int(t)]]

\* _parse(tokens, stack) over table tbl: the result and the list as left.
RECURSIVE parse_in(_, _, _)
parse_in(tbl, tokens, stk) ==
    IF Len(tokens) = 0 THEN [res |-> sum(stk), stack |-> stk]
    ELSE
        LET t == tokens[1] IN
        IF t = <<"(">> THEN
            LET group(end) ==
                    IF end = 0 THEN [res |-> Raised("ValueError"), stack |-> stk]
                    ELSE
                        LET rest(inner) ==
                                IF inner.err # "" THEN [res |-> inner, stack |-> stk]
                                ELSE parse_in(tbl, SubSeq(tokens, end + 1, Len(tokens)),
                                              Append(stk, inner.val))
                        IN  rest(parse_in(tbl, SubSeq(tokens, 2, end - 1), <<>>).res)
            IN  group(_find_end(tokens))
        ELSE IF t \in DOMAIN tbl THEN
            parse_in(tbl, Tail(tokens), Append(stk, tbl[t]))
        ELSE IF isdigit(t) THEN
            LET multiplied(m) ==
                    IF m.err # "" THEN [res |-> Raised(m.err), stack |-> stk]
                    ELSE parse_in(tbl, Tail(tokens), m.stack)
            IN  multiplied(MulTop(stk, t))
        ELSE parse_in(tbl, Tail(tokens), stk)

_parse(tokens, stk) == parse_in(atomic_elements, tokens, stk)

\* The digit tokens _parse(tokens, stk) processes, in the order it processes
\* them, while the token before the first one is prev and the entry that
\* token appended is unit: for each, the token processed just before it, the
\* entry that token appended (if it appended one), the list as the digit
\* token finds it and as stack[-1] *= int(t) leaves it.
NothingAppended == [appended |-> FALSE, weight |-> 0]
JustAppended(w) == [appended |-> TRUE, weight |-> w]

RECURSIVE digit_steps(_, _, _, _, _)
digit_steps(tbl, tokens, stk, prev, unit) ==
    IF Len(tokens) = 0 THEN <<>>
    ELSE
        LET t == tokens[1] IN
        IF t = <<"(">> THEN
            LET group(end) ==
                    IF end = 0 THEN <<>>
                    ELSE
                        LET rest(inner) ==
                                IF inner.err # "" THEN <<>>
                                ELSE digit_steps(tbl, SubSeq(tokens, end + 1, Len(tokens)),
                                                 Append(stk, inner.val), <<")">>,
                                                 JustAppended(inner.val))
                        IN  digit_steps(tbl, SubSeq(tokens, 2, end - 1), <<>>, t,
                                        NothingAppended)
                                \o rest(parse_in(tbl, SubSeq(tokens, 2, end - 1), <<>>).res)
            IN  group(_find_end(tokens))
        ELSE IF t \in DOMAIN tbl THEN
            digit_steps(tbl, Tail(tokens), Append(stk, tbl[t]), t, JustAppended(tbl[t]))
        ELSE IF isdigit(t) THEN
            LET multiplied(m) ==
                    <<[digits |-> t, before |-> prev, unit |-> unit, stack |-> stk,
                       err |-> m.err, left |-> m.stack]>>
                        \o (IF m.err # "" THEN <<>>
                            ELSE digit_steps(tbl, Tail(tokens), m.stack, t, NothingAppended))
            IN  multiplied(MulTop(stk, t))
        ELSE digit_steps(tbl, Tail(tokens), stk, t, NothingAppended)

\* Mutant: the list of the previous call is used again.
LeftoverStack(left) == left

\* The list mw passes to _parse: a fresh [] whatever an earlier call left.
FreshStack(left) == <<>>

\* mw(formula) when the list left by the previous call is `left`.
mw_call(f, left) == _parse(findall(f, 1), FreshStack(left))

\* mw(formula): the weight returned or the exception raised.
mw(f) == mw_call(f, <<>>).res

(***************************************************************************)
(* chemical_equation.py                                                    *)
(***************************************************************************)

\* Mole numbers and atom counts are integers in units of 1/MolScale.
MolScale == 10

\* tol = 1e-4 in _check_balance, as its inverse.
TolInverse == 10000

Whitespace == {" "}

\* s starts with sep at position i.
StartsAt(s, sep, i) ==
    /\ i + Len(sep) - 1 <= Len(s)
    /\ SubSeq(s, i, i + Len(sep) - 1) = sep

\* str.split(sep) from position i on, `from` being where the current part began.
RECURSIVE split_from(_, _, _, _)
split_from(s, sep, from, i) ==
    IF i > Len(s) THEN <<SubSeq(s, from, Len(s))>>
    ELSE IF StartsAt(s, sep, i) THEN
        <<SubSeq(s, from, i - 1)>> \o split_from(s, sep, i + Len(sep), i + Len(sep))
    ELSE split_from(s, sep, from, i + 1)

split(s, sep) == split_from(s, sep, 1, 1)

\* str.strip().
RECURSIVE lstrip(_)
lstrip(s) == IF Len(s) > 0 /\ s[1] \in Whitespace THEN lstrip(Tail(s)) ELSE s

RECURSIVE rstrip(_)
rstrip(s) == IF Len(s) > 0 /\ s[Len(s)] \in Whitespace
             THEN rstrip(SubSeq(s, 1, Len(s) - 1)) ELSE s

strip(s) == rstrip(lstrip(s))

\* Last index of the maximal run of characters outside cls that starts at i.
RECURSIVE RunEndNot(_, _, _)
RunEndNot(s, i, cls) ==
    IF i <= Len(s) /\ s[i] \notin cls THEN RunEndNot(s, i + 1, cls) ELSE i - 1

\* str.split() with no argument: the runs of non-whitespace characters.
RECURSIVE split_ws(_)
split_ws(s) ==
    LET t == lstrip(s) IN
    IF Len(t) = 0 THEN <<>>
    ELSE LET j == RunEndNot(t, 1, Whitespace)
         IN  <<SubSeq(t, 1, j)>> \o split_ws(SubSeq(t, j + 1, Len(t)))

RECURSIVE Pow10(_)
Pow10(k) == IF k = 0 THEN 1 ELSE 10 * Pow10(k - 1)

\* float(text) in units of 1/MolScale for digits with an optional fraction
\* part; any other text raises ValueError (err set).
float(t) ==
    LET i == RunEnd(t, 1, Digit) IN
    IF i = 0 THEN [err |-> "ValueError", val |-> 0]
    ELSE IF i = Len(t) THEN [err |-> "", val |-> int(t) * MolScale]
    ELSE IF t[i + 1] = "." /\ RunEnd(t, i + 2, Digit) = Len(t) THEN
        LET frac == SubSeq(t, i + 2, Len(t))
        IN  [err |-> "",
             val |-> int(SubSeq(t, 1, i)) * MolScale
                     + (int(frac) * MolScale) \div Pow10(Len(frac))]
    ELSE [err |-> "ValueError", val |-> 0]

\* _parse_equation: the stripped '+'-separated items of the text before the
\* first '->' and of the text between the first and the second '->'.
\* IndexError when the text has no '->'.
_parse_equation(text) ==
    LET parts == split(text, <<"-", ">">>) IN
    IF Len(parts) < 2 THEN [err |-> "IndexError", reactants |-> <<>>, products |-> <<>>]
    ELSE LET rcts == split(parts[1], <<"+">>)
             prods == split(parts[2], <<"+">>)
         IN  [err |-> "",
              reactants |-> [k \in 1..Len(rcts) |-> strip(rcts[k])],
              products |-> [k \in 1..Len(prods) |-> strip(prods[k])]]

\* Mutant: a ')' may stand between the element and its digits.
RECURSIVE element_pairs_past_close(_, _)
element_pairs_past_close(sp, i) ==
    IF i > Len(sp) THEN <<>>
    ELSE IF sp[i] \in Upper THEN
        LET j == IF i < Len(sp) /\ sp[i + 1] \in Lower THEN i + 1 ELSE i
            c == IF j < Len(sp) /\ sp[j + 1] = ")" THEN j + 1 ELSE j
            k == RunEnd(sp, c + 1, Digit)
        IN  <<[element |-> SubSeq(sp, i, j), digits |-> SubSeq(sp, c + 1, k)]>>
            \o element_pairs_past_close(sp, k + 1)
    ELSE element_pairs_past_close(sp, i + 1)

\* re.findall('([A-Z][a-z]?)([0-9]+)?', sp) from position i on: pairs of an
\* element (an uppercase letter and at most one lowercase letter) and the
\* digits right after it ('' when there are none).
RECURSIVE element_pairs(_, _)
element_pairs(sp, i) ==
    IF i > Len(sp) THEN <<>>
    ELSE IF sp[i] \in Upper THEN
        LET j == IF i < Len(sp) /\ sp[i + 1] \in Lower THEN i + 1 ELSE i
            k == RunEnd(sp, j + 1, Digit)
        IN  <<[element |-> SubSeq(sp, i, j), digits |-> SubSeq(sp, j + 1, k)]>>
            \o element_pairs(sp, k + 1)
    ELSE element_pairs(sp, i + 1)

\* Mutant: the element's count is replaced, not added to.
counter_overwrite(counter, element, n) ==
    IF \E k \in 1..Len(counter) : counter[k].element = element
    THEN [k \in 1..Len(counter) |->
            IF counter[k].element = element
            THEN [element |-> element, count |-> n]
            ELSE counter[k]]
    ELSE Append(counter, [element |-> element, count |-> n])

\* Counter.update({element: n}): adds to the element's count, a new element
\* going to the end (a dict keeps insertion order).
counter_update(counter, element, n) ==
    IF \E k \in 1..Len(counter) : counter[k].element = element
    THEN [k \in 1..Len(counter) |->
            IF counter[k].element = element
            THEN [element |-> element, count |-> counter[k].count + n]
            ELSE counter[k]]
    ELSE Append(counter, [element |-> element, count |-> n])

\* The loop over r in rex: atoms * mol added to the counter for each pair.
RECURSIVE count_elements(_, _, _)
count_elements(counter, rex, mol) ==
    IF Len(rex) = 0 THEN counter
    ELSE LET r == rex[1]
             atoms == IF Len(r.digits) = 0 THEN 1 ELSE int(r.digits)
         IN  count_elements(counter_update(counter, r.element, atoms * mol),
                            Tail(rex), mol)

\* Mutant: an empty item is not indexed; it counts as one mole of ''.
moles_and_species_of_any(c) ==
    IF Len(c) > 0 /\ c[1] \in Digit THEN
        LET item(w, f) ==
                IF f.err # "" THEN [err |-> f.err, mol |-> 0, sp |-> <<>>]
                ELSE IF Len(w) < 2 THEN [err |-> "IndexError", mol |-> 0, sp |-> <<>>]
                ELSE [err |-> "", mol |-> f.val, sp |-> w[2]]
            words(w) == item(w, float(w[1]))
        IN  words(split_ws(c))
    ELSE [err |-> "", mol |-> MolScale, sp |-> c]

\* The moles and species of one item: 'coefficient species' when the item
\* starts with a digit, else 1.0 and the item. IndexError for an empty item
\* or one with no species after the coefficient.
moles_and_species(c) ==
    IF Len(c) = 0 THEN [err |-> "IndexError", mol |-> 0, sp |-> <<>>]
    ELSE IF c[1] \in Digit THEN
        LET item(w, f) ==
                IF f.err # "" THEN [err |-> f.err, mol |-> 0, sp |-> <<>>]
                ELSE IF Len(w) < 2 THEN [err |-> "IndexError", mol |-> 0, sp |-> <<>>]
                ELSE [err |-> "", mol |-> f.val, sp |-> w[2]]
            words(w) == item(w, float(w[1]))
        IN  words(split_ws(c))
    ELSE [err |-> "", mol |-> MolScale, sp |-> c]

\* self.names lookup: the mapped formula when names is given and has the key.
resolve(nm, sp) == IF ~nm.none /\ sp \in DOMAIN nm.dict THEN nm.dict[sp] ELSE sp

\* Mutant: an item whose species is already listed is not listed again.
append_unless_present(list, x) ==
    IF \E k \in 1..Len(list) : list[k] = x THEN list ELSE Append(list, x)

\* species.append(sp).
append(list, x) == Append(list, x)

\* Mutant: the mass of an item is its molecular weight.
mass_of_one_mole(mol, w) == MolScale * w

\* mass[i] = mol * mw.
item_mass(mol, w) == mol * w

EmptyProps == [err |-> "", species |-> <<>>, moles |-> <<>>, molwt |-> <<>>,
               mass |-> <<>>, element_counter |-> <<>>]

\* The loop of _equation_properties from item i on; the first exception ends it.
RECURSIVE properties_loop(_, _, _, _)
properties_loop(comps, nm, i, acc) ==
    IF i > Len(comps) THEN acc
    ELSE
        LET weighed(mol, sp, w) ==
                IF w.err # "" THEN [acc EXCEPT !.err = w.err]
                ELSE properties_loop(comps, nm, i + 1,
                        [err |-> "",
                         species |-> append(acc.species, sp),
                         moles |-> Append(acc.moles, mol),
                         molwt |-> Append(acc.molwt, w.val),
                         mass |-> Append(acc.mass, item_mass(mol, w.val)),
                         element_counter |->
                            count_elements(acc.element_counter,
                                           element_pairs(sp, 1), mol)])
            named(mol, sp) == weighed(mol, sp, mw(sp))
            item(ms) ==
                IF ms.err # "" THEN [acc EXCEPT !.err = ms.err]
                ELSE named(ms.mol, resolve(nm, ms.sp))
        IN  item(moles_and_species(comps[i]))

\* _equation_properties(comps): the properties of one side. Fractions are
\* kept as <<numerator, denominator>>.
_equation_properties(comps, nm) ==
    LET properties(p, sum_moles, sum_mass) ==
            [err |-> p.err,
             species |-> p.species,
             moles |-> p.moles,
             molwt |-> p.molwt,
             mass |-> p.mass,
             element_counter |-> p.element_counter,
             sum_moles |-> sum_moles,
             sum_mass |-> sum_mass,
             mol_fracs |-> [k \in 1..Len(p.moles) |-> <<p.moles[k], sum_moles>>],
             mass_fracs |-> [k \in 1..Len(p.mass) |-> <<p.mass[k], sum_mass>>]]
        sums(p) == properties(p, SumSeq(p.moles), SumSeq(p.mass))
    IN  sums(properties_loop(comps, nm, 1, EmptyProps))

Abs(x) == IF x < 0 THEN -x ELSE x

Min(a, b) == IF a < b THEN a ELSE b

\* _check_balance: zip pairs the values of the two dicts by position, up to
\* the shorter one; balance is False when a pair differs by more than tol.
_check_balance(rct_elements, prod_elements) ==
    \A k \in 1..Min(Len(rct_elements), Len(prod_elements)) :
        ~(Abs(rct_elements[k].count - prod_elements[k].count) * TolInverse > MolScale)

\* The properties of a side with no items.
NoSide == [err |-> "", species |-> <<>>, moles |-> <<>>, molwt |-> <<>>,
           mass |-> <<>>, element_counter |-> <<>>, sum_moles |-> 0,
           sum_mass |-> 0, mol_fracs |-> <<>>, mass_fracs |-> <<>>]

NoObject(e) ==
    [err |-> e, eq |-> <<>>, names |-> [none |-> TRUE, dict |-> <<>>],
     reactants |-> <<>>, products |-> <<>>,
     rct |-> NoSide, prod |-> NoSide, balance |-> FALSE]

\* ChemicalEquation.__init__: the object, or the first exception raised.
ChemicalEquation(text, nm) ==
    LET object(pe, r, p) ==
            [err |-> "", eq |-> text, names |-> nm,
             reactants |-> pe.reactants, products |-> pe.products,
             rct |-> r, prod |-> p,
             balance |-> _check_balance(r.element_counter, p.element_counter)]
        products(pe, r, p) ==
            IF p.err # "" THEN NoObject(p.err) ELSE object(pe, r, p)
        reactants(pe, r) ==
            IF r.err # "" THEN NoObject(r.err)
            ELSE products(pe, r, _equation_properties(pe.products, nm))
        parsed(pe) ==
            IF pe.err # "" THEN NoObject(pe.err)
            ELSE reactants(pe, _equation_properties(pe.reactants, nm))
    IN  parsed(_parse_equation(text))

\* list.index(x): the first position of x, 0 standing for raise ValueError.
index(list, x) ==
    IF \E k \in 1..Len(list) : list[k] = x
    THEN CHOOSE k \in 1..Len(list) : list[k] = x /\ \A j \in 1..(k - 1) : list[j] # x
    ELSE 0

\* The dict a lookup returns for the item at idx of a side.
side_props(side, idx) ==
    [moles |-> side.moles[idx], mol_wt |-> side.molwt[idx], mass |-> side.mass[idx],
     mol_frac |-> side.mol_fracs[idx], mass_frac |-> side.mass_fracs[idx]]

NoItem == [moles |-> 0, mol_wt |-> 0, mass |-> 0, mol_frac |-> <<0, 0>>,
           mass_frac |-> <<0, 0>>]

\* The lookup of species in one side's rct_species / prod_species list.
lookup(side, species) ==
    LET found(idx) ==
            IF idx = 0 THEN [err |-> "ValueError", val |-> NoItem]
            ELSE [err |-> "", val |-> side_props(side, idx)]
    IN  found(index(side.species, species))

\* reactant_props(species) and product_props(species) on object obj.
reactant_props(obj, species) == lookup(obj.rct, species)
product_props(obj, species) == lookup(obj.prod, species)

NoProps == [err |-> "no call", val |-> NoItem]

(***************************************************************************)
(* dimensionless_numbers.py: reynolds and flow_regime.                     *)
(*                                                                         *)
(* An argument is None or a number; numbers are integers here and a        *)
(* quotient is the pair <<numerator, denominator>>.                        *)
(***************************************************************************)
NoneArg == [none |-> TRUE, v |-> 0]
Num(x) == [none |-> FALSE, v |-> x]

\* Python truth value of an optional number: None and 0 are false.
truthy(x) == ~x.none /\ x.v # 0

\* q < k and q > k for a quotient q with a non-zero denominator.
Less(q, k) == IF q[2] > 0 THEN q[1] < k * q[2] ELSE q[1] > k * q[2]
Greater(q, k) == IF q[2] > 0 THEN q[1] > k * q[2] ELSE q[1] < k * q[2]

\* reynolds(u, d, rho, mu, nu): rho*u*d/mu or u*d/nu; arithmetic on None is
\* a TypeError.
reynolds(u, d, rho, mu, nu) ==
    IF truthy(rho) /\ truthy(mu) /\ ~truthy(nu)
    THEN IF u.none \/ d.none THEN [err |-> "TypeError", val |-> <<0, 1>>]
         ELSE [err |-> "", val |-> <<rho.v * u.v * d.v, mu.v>>]
    ELSE IF truthy(nu) /\ ~truthy(rho) /\ ~truthy(mu)
    THEN IF u.none \/ d.none THEN [err |-> "TypeError", val |-> <<0, 1>>]
         ELSE [err |-> "", val |-> <<u.v * d.v, nu.v>>]
    ELSE [err |-> "ValueError", val |-> <<0, 1>>]

\* The if / elif / elif / else chain of flow_regime on the Reynolds number q.
regime_of(q) ==
    IF Less(q, 2100) THEN "laminar"
    ELSE IF ~Less(q, 2100) /\ ~Greater(q, 4000) THEN "transitional"
    ELSE IF Greater(q, 4000) THEN "turbulent"
    ELSE ""

\* flow_regime(Re, u, d, rho, mu, nu).
flow_regime(Re, u, d, rho, mu, nu) ==
    LET classify(r) ==
            IF r.err # "" THEN [err |-> r.err, val |-> ""]
            ELSE [err |-> "", val |-> regime_of(r.val)]
    IN  IF ~truthy(Re)
        THEN IF (truthy(rho) /\ truthy(mu) /\ ~truthy(nu))
                    \/ (truthy(nu) /\ ~truthy(rho) /\ ~truthy(mu))
             THEN classify(reynolds(u, d, rho, mu, nu))
             ELSE [err |-> "ValueError", val |-> ""]
        ELSE [err |-> "", val |-> regime_of(<<Re.v, 1>>)]

NoArgs == [Re |-> NoneArg, u |-> NoneArg, d |-> NoneArg, rho |-> NoneArg,
           mu |-> NoneArg, nu |-> NoneArg]

(***************************************************************************)
(* gas.py: the Gas class.                                                  *)
(*                                                                         *)
(* A coefficient table is the sequence of the rows of its CSV file, a row  *)
(* being [Formula, CAS, Tmin, Tmax, coeffs].  Temperatures are integers    *)
(* (units of 100 K) and coefficients are integers, so that a correlation   *)
(* is evaluated exactly.  A cas_number of None is the string "None".       *)
(***************************************************************************)
NoCas == "None"

\* Mutant: no temperature is out of range.
_check_temperature_never(f, temperature, limits) == ""

\* _check_temperature(formula, temperature, limits): the exception raised,
\* "" when the temperature is within the limits (both bounds accepted).
_check_temperature(f, temperature, limits) ==
    IF temperature < limits[1] \/ temperature > limits[2] THEN "ValueError" ELSE ""

NoRow == [Formula |-> <<>>, CAS |-> NoCas, Tmin |-> 0, Tmax |-> 0, coeffs |-> <<>>]

\* _get_row(csv_file, formula, cas_number) on the rows of the file: the rows
\* of that CAS number when one is given, the rows of that formula otherwise.
_get_row(table, f, cas_number) ==
    IF cas_number # NoCas
    THEN LET row == SelectSeq(table, LAMBDA r : r.CAS = cas_number)
         IN  IF Len(row) = 0 THEN [err |-> "ValueError", row |-> NoRow]
             ELSE [err |-> "", row |-> row[1]]
    ELSE LET row == SelectSeq(table, LAMBDA r : r.Formula = f)
         IN  IF Len(row) > 1 THEN [err |-> "ValueError", row |-> NoRow]
             ELSE IF Len(row) = 0 THEN [err |-> "ValueError", row |-> NoRow]
             ELSE [err |-> "", row |-> row[1]]

\* t ** n.
RECURSIVE Power(_, _)
Power(t, n) == IF n = 0 THEN 1 ELSE t * Power(t, n - 1)

\* a + b*T + c*T**2 + ... over the first n coefficients.
RECURSIVE polynomial(_, _, _)
polynomial(coeffs, n, t) ==
    IF n = 0 THEN 0
    ELSE polynomial(coeffs, n - 1, t) + coeffs[n] * Power(t, n - 1)

\* The state of a correlation before its first successful call.
NoState == [method |-> "None", coefficients |-> <<>>, limits |-> <<>>]

\* Mutant: the three states are reset when a call raises.
GasRaisedReset(g, e) ==
    [err |-> e, val |-> 0,
     gas |-> [g EXCEPT !._cp_state = NoState, !._k_state = NoState,
                       !._mu_state = NoState]]

\* What a property call produces: the exception or the value, and the object
\* as the call leaves it.  A call that raises has assigned nothing.
GasRaised(g, e) == [err |-> e, val |-> 0, gas |-> g]
GasReturned(g, v) == [err |-> "", val |-> v, gas |-> g]

\* Gas.heat_capacity on object g, gas-cp-yaws.csv holding the rows `table`.
heat_capacity(g, table) ==
    IF g._cp_state.method = "yaws"
    THEN IF _check_temperature(g.formula, g.temperature, g._cp_state.limits) # ""
         THEN GasRaised(g, "ValueError")
         ELSE GasReturned(g, polynomial(g._cp_state.coefficients, 7, g.temperature))
    ELSE LET looked_up(r) ==
                 IF r.err # "" THEN GasRaised(g, r.err)
                 ELSE IF _check_temperature(g.formula, g.temperature,
                                            <<r.row.Tmin, r.row.Tmax>>) # ""
                 THEN GasRaised(g, "ValueError")
                 ELSE GasReturned(
                          [g EXCEPT !._cp_state =
                              [method |-> "yaws",
                               coefficients |-> SubSeq(r.row.coeffs, 1, 7),
                               limits |-> <<r.row.Tmin, r.row.Tmax>>]],
                          polynomial(r.row.coeffs, 7, g.temperature))
         IN  looked_up(_get_row(table, g.formula, g.cas_number))

\* Gas.thermal_conductivity on object g, gas-k-yaws.csv holding `table`.
thermal_conductivity(g, table) ==
    IF g._k_state.method = "yaws"
    THEN IF _check_temperature(g.formula, g.temperature, g._k_state.limits) # ""
         THEN GasRaised(g, "ValueError")
         ELSE GasReturned(g, polynomial(g._k_state.coefficients, 4, g.temperature))
    ELSE LET looked_up(r) ==
                 IF r.err # "" THEN GasRaised(g, r.err)
                 ELSE IF _check_temperature(g.formula, g.temperature,
                                            <<r.row.Tmin, r.row.Tmax>>) # ""
                 THEN GasRaised(g, "ValueError")
                 ELSE GasReturned(
                          [g EXCEPT !._k_state =
                              [method |-> "yaws",
                               coefficients |-> SubSeq(r.row.coeffs, 1, 4),
                               limits |-> <<r.row.Tmin, r.row.Tmax>>]],
                          polynomial(r.row.coeffs, 4, g.temperature))
         IN  looked_up(_get_row(table, g.formula, g.cas_number))

\* Gas.viscosity(method) on object g, gas-viscosity-yaws.csv holding the rows
\* `yaws` and gas-viscosity-ludwig.csv the rows `ludwig`.
viscosity(g, method, yaws, ludwig) ==
    IF g._mu_state.method = "yaws"
    THEN IF _check_temperature(g.formula, g.temperature, g._mu_state.limits) # ""
         THEN GasRaised(g, "ValueError")
         ELSE GasReturned(g, polynomial(g._mu_state.coefficients, 4, g.temperature))
    ELSE IF g._mu_state.method = "ludwig"
    THEN IF _check_temperature(g.formula, g.temperature, g._mu_state.limits) # ""
         THEN GasRaised(g, "ValueError")
         ELSE GasReturned(g, polynomial(g._mu_state.coefficients, 3, g.temperature))
    ELSE IF method \notin {"yaws", "ludwig"} THEN GasRaised(g, "ValueError")
    ELSE LET n == IF method = "yaws" THEN 4 ELSE 3
             looked_up(r) ==
                 IF r.err # "" THEN GasRaised(g, r.err)
                 ELSE IF _check_temperature(g.formula, g.temperature,
                                            <<r.row.Tmin, r.row.Tmax>>) # ""
                 THEN GasRaised(g, "ValueError")
                 ELSE GasReturned(
                          [g EXCEPT !._mu_state =
                              [method |-> method,
                               coefficients |-> SubSeq(r.row.coeffs, 1, n),
                               limits |-> <<r.row.Tmin, r.row.Tmax>>]],
                          polynomial(r.row.coeffs, n, g.temperature))
         IN  looked_up(_get_row(IF method = "yaws" THEN yaws ELSE ludwig,
                                g.formula, g.cas_number))

\* Gas(formula, temperature, cas_number=cas_number): the attributes __init__
\* sets (the pressure, which no correlation reads, is left out).
Gas(f, temperature, cas_number) ==
    [formula |-> f, temperature |-> temperature, cas_number |-> cas_number,
     molecular_weight |-> mw(f).val,
     _cp_state |-> NoState, _k_state |-> NoState, _mu_state |-> NoState]

NoGas == [formula |-> <<>>, temperature |-> 0, cas_number |-> NoCas,
          molecular_weight |-> 0,
          _cp_state |-> NoState, _k_state |-> NoState, _mu_state |-> NoState]

(***************************************************************************)
(* Inputs.                                                                 *)
(***************************************************************************)
Strings(n) == UNION {[1..k -> Alphabet] : k \in 0..n}

\* "(X)n" as a string.
Wrap(x, n) == <<"(">> \o x \o <<")">> \o n

Multipliers == {<<"2">>, <<"2", "2">>}
OuterMultipliers == {<<"2">>, <<"3">>}

\* Strings over the letters and digits that make a weight, to be wrapped.
Cores == UNION {[1..k -> {"C", "O", "2"}] : k \in 1..3}
             \cup {<<"C", "m">>, <<"C", "m", "2">>, <<"O", "C", "m">>, <<"O", "m">>}
Wrapped1 == {Wrap(x, n) : x \in Cores, n \in Multipliers}
Wrapped2 == {Wrap(x, n) : x \in Wrapped1, n \in OuterMultipliers}
Prefixed2 == {Wrap(<<"O">> \o x, n) : x \in Wrapped1, n \in OuterMultipliers}
Wrapped3 == {Wrap(x, n) : x \in Wrapped2, n \in OuterMultipliers}

Formulas == Strings(MaxLen) \cup Wrapped1 \cup Wrapped2 \cup Prefixed2 \cup Wrapped3

\* Join the items of a side with ' + '.
RECURSIVE JoinPlus(_)
JoinPlus(items) ==
    IF Len(items) = 1 THEN items[1]
    ELSE items[1] \o <<" ", "+", " ">> \o JoinPlus(Tail(items))

\* The item texts equations are drawn from.
ItemTexts == {<<"C">>, <<"O", "2">>, <<"C", "O", "2">>, <<"2", " ", "C", "O">>, <<"2", " ", "C", "O", "2">>, <<"H", "2">>}

Sides == UNION {[1..k -> ItemTexts] : k \in 1..MaxItems}

Render(r, p) == JoinPlus(r) \o <<" ", "-", ">", " ">> \o JoinPlus(p)

NoNames == [none |-> TRUE, dict |-> <<>>]
Names(d) == [none |-> FALSE, dict |-> d]

\* The equations of the class docstring and of the tests, and the second
\* one's names.
DocEquation == <<"2", " ", "H", "C", "l", " ", "+", " ", "2", " ", "N", "a", " ", "-", ">", " ", "2", " ", "N", "a", "C", "l", " ", "+", " ", "H", "2">>
TestEquation == <<"5", " ", "N", "a", "C", "l", " ", "+", " ", "3", " ", "H", "2", "O", " ", "-", ">", " ", "C", "H", "4", " ", "+", " ", "2", ".", "2", " ", "C", "H", "A", "R", " ", "+", " ", "C", "H", "2", "O", "H", "C", "H", "O", " ", "+", " ", "G", "C", "O", "2">>
TestNames == Names((<<"C", "H", "A", "R">> :> <<"C">>) @@ (<<"G", "C", "O", "2">> :> <<"C", "O", "2">>))

\* Items with a group, no text, an unknown symbol, an unmatched parenthesis,
\* more than one space or a zero coefficient, and the sides they stand on.
EdgeItems == {<<"2", " ", "C", "a", "(", "O", "H", ")", "2">>, <<>>, <<"X">>, <<"(", "C">>,
              <<"2", " ", "C", " ", "O">>, <<"2", " ", " ", "C">>, <<"0", " ", "C">>}
EdgeSides == UNION {[1..k -> EdgeItems \cup {<<"C">>, <<"2", " ", "C", "O", "2">>}] : k \in 1..MaxItems}
PlainSides == {<<<<"C">>>>, <<<<"C", "O", "2">>>>}

\* Texts without a '->'.
NoArrowTexts == {<<"C">>, <<"C", " ", "+", " ", "O", "2">>,
                 <<"C", " ", "-", " ", "C", "O", "2">>, <<"C", " ", ">", " ", "C">>}

\* An equation with one alias on each side.
AliasEquation == <<"G", "C", "O", "2", " ", "-", ">", " ", "2", " ", "C", "H", "A", "R">>

\* Texts with two '->': an equation followed by an arrow and a third clause.
ThirdClauses == {<<"O", "2">>, <<"C", " ", "+", " ", "O", "2">>}
TwoArrowTexts ==
    {Render(r, p) \o <<" ", "-", ">", " ">> \o q :
        r \in PlainSides, p \in PlainSides, q \in ThirdClauses}

\* The <<equation, names>> pairs drawn.
EquationInputs ==
    {<<Render(r, p), NoNames>> : r \in Sides, p \in Sides}
        \cup {<<t, NoNames>> : t \in TwoArrowTexts}
        \cup {<<Render(r, p), NoNames>> : r \in EdgeSides, p \in PlainSides}
        \cup {<<Render(r, p), NoNames>> : r \in PlainSides, p \in EdgeSides}
        \cup {<<t, NoNames>> : t \in NoArrowTexts}
        \cup {<<DocEquation, NoNames>>, <<TestEquation, TestNames>>,
              <<TestEquation, NoNames>>, <<AliasEquation, TestNames>>}

(***************************************************************************)
(* Specification of one mw call on a drawn formula.                        *)
(***************************************************************************)
NotConstructed == NoObject("no call")
NoCall == [op |-> "none", text |-> <<>>, names |-> NoNames]

InitMw ==
    /\ pc = "ready"
    /\ formula \in Formulas
    /\ result = NoResult
    /\ stack = <<>>
    /\ atomic_elements = ElementTable
    /\ eq = <<>>
    /\ names = NoNames
    /\ ce = NotConstructed
    /\ calls = 0
    /\ call = NoCall
    /\ props = NoProps
    /\ args = NoArgs
    /\ gas = NoGas

MwCall ==
    /\ pc = "ready"
    /\ LET r == mw_call(formula, stack)
       IN  /\ result' = r.res
           /\ stack' = r.stack
    /\ pc' = "done"
    /\ calls' = calls + 1
    /\ call' = [op |-> "mw", text |-> formula, names |-> NoNames]
    /\ UNCHANGED <<formula, atomic_elements, eq, names, ce, props, args, gas>>

NextMw == MwCall

SpecMw == InitMw /\ [][NextMw]_vars

(***************************************************************************)
(* Specification of one ChemicalEquation construction on a drawn equation. *)
(***************************************************************************)
InitEq ==
    /\ pc = "ready"
    /\ \E in \in EquationInputs : eq = in[1] /\ names = in[2]
    /\ ce = NotConstructed
    /\ formula = <<>>
    /\ result = NoResult
    /\ stack = <<>>
    /\ atomic_elements = ElementTable
    /\ calls = 0
    /\ call = NoCall
    /\ props = NoProps
    /\ args = NoArgs
    /\ gas = NoGas

Construct ==
    /\ pc = "ready"
    /\ ce' = ChemicalEquation(eq, names)
    /\ pc' = "done"
    /\ calls' = calls + 1
    /\ call' = [op |-> "ChemicalEquation", text |-> eq, names |-> names]
    /\ UNCHANGED <<formula, result, stack, atomic_elements, eq, names, props, args, gas>>

NextEq == Construct

SpecEq == InitEq /\ [][NextEq]_vars

(***************************************************************************)
(* Specification of a caller making calls one after another: mw on any of  *)
(* SeqFormulas, ChemicalEquation on any of SeqInputs, reactant_props and   *)
(* product_props of any of LookupNames on the object constructed last.     *)
(***************************************************************************)
SeqFormulas ==
    UNION {[1..k -> {"C", "O", "2", "("}] : k \in 1..2}
        \cup {w \in Wrapped1 : Len(w) <= 4} \cup {<<"C", "m">>, <<"O", "m">>, <<"C", ")">>}

SeqInputs ==
    {<<Render(<<r>>, <<p>>), NoNames>> :
        r \in {<<"C">>, <<"O", "2">>}, p \in {<<"C", "O", "2">>, <<"C">>}}
        \cup {<<DocEquation, NoNames>>, <<TestEquation, TestNames>>}

Init ==
    /\ pc = "ready"
    /\ formula = <<>>
    /\ result = NoResult
    /\ stack = <<>>
    /\ atomic_elements = ElementTable
    /\ eq = <<>>
    /\ names = NoNames
    /\ ce = NotConstructed
    /\ calls = 0
    /\ call = NoCall
    /\ props = NoProps
    /\ args = NoArgs
    /\ gas = NoGas

CallMw ==
    /\ calls < MaxCalls
    /\ \E f \in SeqFormulas :
          /\ formula' = f
          /\ LET r == mw_call(f, stack)
             IN  result' = r.res /\ stack' = r.stack
          /\ call' = [op |-> "mw", text |-> f, names |-> NoNames]
    /\ calls' = calls + 1
    /\ UNCHANGED <<pc, atomic_elements, eq, names, ce, props, args, gas>>

CallChemicalEquation ==
    /\ calls < MaxCalls
    /\ \E in \in SeqInputs :
          /\ eq' = in[1]
          /\ names' = in[2]
          /\ ce' = ChemicalEquation(in[1], in[2])
          /\ call' = [op |-> "ChemicalEquation", text |-> in[1], names |-> in[2]]
    /\ calls' = calls + 1
    /\ UNCHANGED <<pc, formula, result, stack, atomic_elements, props, args, gas>>

\* The names looked up: formulas and display tokens of the equations drawn.
LookupNames == {<<"C">>, <<"C", "O", "2">>, <<"G", "C", "O", "2">>, <<"N", "a">>}

\* reactant_props / product_props on the object constructed last.
CallReactantProps ==
    /\ calls < MaxCalls
    /\ ce.err = ""
    /\ \E species \in LookupNames :
          /\ props' = reactant_props(ce, species)
          /\ call' = [op |-> "reactant_props", text |-> species, names |-> NoNames]
    /\ calls' = calls + 1
    /\ UNCHANGED <<pc, formula, result, stack, atomic_elements, eq, names, ce, args, gas>>

CallProductProps ==
    /\ calls < MaxCalls
    /\ ce.err = ""
    /\ \E species \in LookupNames :
          /\ props' = product_props(ce, species)
          /\ call' = [op |-> "product_props", text |-> species, names |-> NoNames]
    /\ calls' = calls + 1
    /\ UNCHANGED <<pc, formula, result, stack, atomic_elements, eq, names, ce, args, gas>>

Next == CallMw \/ CallChemicalEquation \/ CallReactantProps \/ CallProductProps

Spec == Init /\ [][Next]_vars

(***************************************************************************)
(* Specification of one flow_regime call on drawn arguments.               *)
(***************************************************************************)
\* Reynolds numbers on both sides of and on the two limits, and 0.
ReValues == {NoneArg} \cup {Num(x) : x \in {-5, 0, 1, 2099, 2100, 2101, 3999, 4000, 4001}}
UValues == {NoneArg} \cup {Num(x) : x \in {0, 1, 3}}
DValues == {NoneArg} \cup {Num(x) : x \in {1, 2}}
RhoValues == {NoneArg} \cup {Num(x) : x \in {0, 700, 4001}}
MuValues == {NoneArg} \cup {Num(x) : x \in {0, 1, 2}}
NuValues == {NoneArg} \cup {Num(x) : x \in {0, 1}}

InitRegime ==
    /\ pc = "ready"
    /\ args \in [Re : ReValues, u : UValues, d : DValues, rho : RhoValues,
                 mu : MuValues, nu : NuValues]
    /\ formula = <<>>
    /\ result = NoResult
    /\ stack = <<>>
    /\ atomic_elements = ElementTable
    /\ eq = <<>>
    /\ names = NoNames
    /\ ce = NotConstructed
    /\ calls = 0
    /\ call = NoCall
    /\ props = NoProps
    /\ gas = NoGas

FlowRegimeCall ==
    /\ pc = "ready"
    /\ result' = flow_regime(args.Re, args.u, args.d, args.rho, args.mu, args.nu)
    /\ pc' = "done"
    /\ calls' = calls + 1
    /\ call' = [op |-> "flow_regime", text |-> <<>>, names |-> NoNames]
    /\ UNCHANGED <<formula, stack, atomic_elements, eq, names, ce, props, args, gas>>

NextRegime == FlowRegimeCall

SpecRegime == InitRegime /\ [][NextRegime]_vars

(***************************************************************************)
(* Specification of a caller of one Gas object: property calls one after   *)
(* another and assignments to its temperature attribute.                   *)
(***************************************************************************)
\* Rows of the shape the four data files hold: a formula with one row in
\* every file, a formula with two substances in the Yaws files and one in
\* the Ludwig file, and temperature ranges that differ between the files.
Methane == <<"C", "H", "4">>
Acetaldehyde == <<"C", "2", "H", "4", "O">>

CpYawsRows ==
    <<[Formula |-> Methane, CAS |-> "74-82-8", Tmin |-> 2, Tmax |-> 15,
       coeffs |-> <<34, -2, 3, 1, 0, 0, 1>>],
      [Formula |-> Acetaldehyde, CAS |-> "75-07-0", Tmin |-> 2, Tmax |-> 15,
       coeffs |-> <<30, 4, 1, 0, 1, 0, 0>>],
      [Formula |-> Acetaldehyde, CAS |-> "75-21-8", Tmin |-> 3, Tmax |-> 10,
       coeffs |-> <<20, 5, 2, 0, 0, 1, 0>>]>>

KYawsRows ==
    <<[Formula |-> Methane, CAS |-> "74-82-8", Tmin |-> 2, Tmax |-> 12,
       coeffs |-> <<-9, 14, 1, -1>>],
      [Formula |-> Acetaldehyde, CAS |-> "75-07-0", Tmin |-> 3, Tmax |-> 10,
       coeffs |-> <<-7, 8, 2, 1>>],
      [Formula |-> Acetaldehyde, CAS |-> "75-21-8", Tmin |-> 3, Tmax |-> 10,
       coeffs |-> <<-5, 6, 3, 1>>]>>

MuYawsRows ==
    <<[Formula |-> Methane, CAS |-> "74-82-8", Tmin |-> 2, Tmax |-> 10,
       coeffs |-> <<4, 40, -1, 1>>],
      [Formula |-> Acetaldehyde, CAS |-> "75-07-0", Tmin |-> 2, Tmax |-> 10,
       coeffs |-> <<1, 30, -1, 1>>],
      [Formula |-> Acetaldehyde, CAS |-> "75-21-8", Tmin |-> 2, Tmax |-> 10,
       coeffs |-> <<-3, 35, -1, 1>>]>>

MuLudwigRows ==
    <<[Formula |-> Methane, CAS |-> "74-82-8", Tmin |-> 3, Tmax |-> 9,
       coeffs |-> <<16, 38, -1>>],
      [Formula |-> Acetaldehyde, CAS |-> "75-07-0", Tmin |-> 3, Tmax |-> 9,
       coeffs |-> <<1, 31, -1>>]>>

\* A formula of no row, and both tabulated ones.
GasFormulas == {Methane, Acetaldehyde, <<"C", "O", "3">>}
\* No CAS number, a tabulated one and one of no row.
CasNumbers == {NoCas, "75-07-0", "0-00-0"}
\* Below, on, between and above the limits of the rows.
Temperatures == {1, 2, 5, 10, 11, 16}
\* The two methods, and one that is not available.
Methods == {"yaws", "ludwig", "sutherland"}

InitGas ==
    /\ pc = "ready"
    /\ formula = <<>>
    /\ result = NoResult
    /\ stack = <<>>
    /\ atomic_elements = ElementTable
    /\ eq = <<>>
    /\ names = NoNames
    /\ ce = NotConstructed
    /\ calls = 0
    /\ call = NoCall
    /\ props = NoProps
    /\ args = NoArgs
    /\ \E f \in GasFormulas, t \in Temperatures, cas \in CasNumbers :
          gas = Gas(f, t, cas)

\* The caller's step after the call produced r.
GasCalled(op, method, r) ==
    /\ result' = [err |-> r.err, val |-> r.val]
    /\ gas' = r.gas
    /\ call' = [op |-> op, text |-> <<method>>, names |-> NoNames]
    /\ calls' = calls + 1
    /\ UNCHANGED <<pc, formula, stack, atomic_elements, eq, names, ce, props, args>>

CallHeatCapacity ==
    /\ calls < MaxCalls
    /\ GasCalled("heat_capacity", "yaws", heat_capacity(gas, CpYawsRows))

CallThermalConductivity ==
    /\ calls < MaxCalls
    /\ GasCalled("thermal_conductivity", "yaws", thermal_conductivity(gas, KYawsRows))

CallViscosity ==
    /\ calls < MaxCalls
    /\ \E method \in Methods :
          GasCalled("viscosity", method, viscosity(gas, method, MuYawsRows, MuLudwigRows))

\* gas.temperature = t
SetTemperature ==
    /\ calls < MaxCalls
    /\ \E t \in Temperatures :
          /\ gas' = [gas EXCEPT !.temperature = t]
          /\ call' = [op |-> "temperature", text |-> <<>>, names |-> NoNames]
    /\ calls' = calls + 1
    /\ UNCHANGED <<pc, formula, result, stack, atomic_elements, eq, names, ce, props, args>>

NextGas == CallHeatCapacity \/ CallThermalConductivity \/ CallViscosity \/ SetTemperature

SpecGas == InitGas /\ [][NextGas]_vars

(***************************************************************************)
(* Notions the statements about formulas are written in.  They read the    *)
(* formula string itself, not the parser's stack.                          *)
(***************************************************************************)

\* Number of positions k in lo..hi with s[k] = c.
CountIn(s, lo, hi, c) == Cardinality({k \in lo..hi : s[k] = c})

\* Opening minus closing parentheses among s[lo..hi] (s a string or a token list).
DepthChars(s, lo, hi) == CountIn(s, lo, hi, "(") - CountIn(s, lo, hi, ")")
DepthToks(t, lo, hi) == CountIn(t, lo, hi, <<"(">>) - CountIn(t, lo, hi, <<")">>)

\* Parentheses balanced and well nested.
Balanced(s) ==
    /\ \A k \in 1..Len(s) : DepthChars(s, 1, k) >= 0
    /\ DepthChars(s, 1, Len(s)) = 0

\* The '(' at s[i] has no matching ')': the depth counted from it never
\* returns to zero.
UnmatchedOpenAt(s, i) ==
    /\ s[i] = "("
    /\ \A j \in i..Len(s) : DepthChars(s, i, j) # 0

HasUnmatchedOpen(s) == \E i \in 1..Len(s) : UnmatchedOpenAt(s, i)

\* s[i] belongs to a token: an uppercase letter, a digit, a parenthesis, or a
\* lowercase letter reached from an uppercase letter through lowercase ones.
RECURSIVE InToken(_, _)
InToken(s, i) ==
    \/ s[i] \in Upper \cup Digit \cup {"(", ")"}
    \/ s[i] \in Lower /\ i > 1 /\ s[i - 1] \in Upper \cup Lower /\ InToken(s, i - 1)

AllInTokens(s) == \A i \in 1..Len(s) : InToken(s, i)

\* The element-symbol tokens of s: an uppercase letter and the lowercase
\* letters after it.
SymbolAt(s, i) == SubSeq(s, i, RunEnd(s, i + 1, Lower))
Symbols(s) == {SymbolAt(s, i) : i \in {k \in 1..Len(s) : s[k] \in Upper}}

KnownSymbols == {e \in DOMAIN ElementTable : ElementTable[e] # None}
NullSymbols == {e \in DOMAIN ElementTable : ElementTable[e] = None}

\* Made only of known element symbols, digit runs and balanced parentheses.
WellFormed(s) ==
    /\ AllInTokens(s)
    /\ Symbols(s) \subseteq KnownSymbols
    /\ Balanced(s)

\* Every digit run directly follows an element symbol or a ')'.
DigitsFollowUnits(s) ==
    \A i \in 1..Len(s) :
        s[i] \in Digit => i > 1 /\ s[i - 1] \in Upper \cup Lower \cup Digit \cup {")"}

IsSymbol(t) == Len(t) > 0 /\ t[1] \in Upper

\* The matching ')' of the '(' at t[i], in a token list with balanced parentheses.
MatchOf(t, i) == CHOOSE j \in i..Len(t) :
    /\ DepthToks(t, i, j) = 0
    /\ \A k \in i..(j - 1) : DepthToks(t, i, k) # 0

\* The digit run right after position p, 1 when there is none.
FactorAfter(t, p) == IF p < Len(t) /\ isdigit(t[p + 1]) THEN int(t[p + 1]) ELSE 1

\* The groups that enclose position p, each named by its '('.
Enclosing(t, p) == {i \in 1..(p - 1) : t[i] = <<"(">> /\ MatchOf(t, i) > p}

RECURSIVE GroupProduct(_, _)
GroupProduct(t, gs) ==
    IF gs = {} THEN 1
    ELSE LET g == CHOOSE x \in gs : TRUE
         IN  FactorAfter(t, MatchOf(t, g)) * GroupProduct(t, gs \ {g})

\* Count of the atom at p in the fully expanded formula.
AtomCount(t, p) == FactorAfter(t, p) * GroupProduct(t, Enclosing(t, p))

RECURSIVE ExpandedFrom(_, _)
ExpandedFrom(t, p) ==
    IF p > Len(t) THEN 0
    ELSE (IF IsSymbol(t[p]) THEN AtomCount(t, p) * ElementTable[t[p]] ELSE 0)
         + ExpandedFrom(t, p + 1)

\* Sum of the atomic weights of all atoms of the fully expanded formula.
ExpandedWeight(s) == ExpandedFrom(findall(s, 1), 1)

(***************************************************************************)
(* Claims about mw, checked under SpecMw.                                  *)
(***************************************************************************)

\* C3 (as stated): for any formula made only of known element symbols, digit
\* runs and balanced parentheses, mw returns the expanded weight: the sum of
\* the atomic weights of all atoms, each counted subscript times the
\* multipliers of the groups around it.
C3_AsStated ==
    (pc = "done" /\ WellFormed(formula))
        => result = Returned(ExpandedWeight(formula))

\* C3 (amended): the same for the formulas in which, in addition, every digit
\* run directly follows an element symbol or a ')'.
C3_ExpandedWeight ==
    (pc = "done" /\ WellFormed(formula) /\ DigitsFollowUnits(formula))
        => result = Returned(ExpandedWeight(formula))

\* C3 witness: an atom with a subscript inside two nested groups that both
\* carry a multiplier has been weighed.
C3_Witness ==
    /\ pc = "done" /\ WellFormed(formula) /\ DigitsFollowUnits(formula)
    /\ result.err = "" /\ result.val > 0
    /\ LET t == findall(formula, 1)
       IN  \E p \in 1..Len(t) :
              /\ IsSymbol(t[p]) /\ FactorAfter(t, p) > 1
              /\ Cardinality(Enclosing(t, p)) = 2
              /\ \A g \in Enclosing(t, p) : FactorAfter(t, MatchOf(t, g)) > 1

\* A valid sub-formula: well formed, every digit run a subscript or a multiplier.
ValidFormula(x) == WellFormed(x) /\ DigitsFollowUnits(x)

\* formula is "(X)n" with the ')' at k: X = formula[2..k-1], n = formula[k+1..].
IsWrapAt(s, k) ==
    /\ 2 <= k /\ k < Len(s)
    /\ s[1] = "(" /\ s[k] = ")"
    /\ isdigit(SubSeq(s, k + 1, Len(s)))
    /\ int(SubSeq(s, k + 1, Len(s))) > 0
    /\ ValidFormula(SubSeq(s, 2, k - 1))

\* C4: for any valid sub-formula X and positive integer n,
\* mw("(X)n") = n * mw(X); X may itself be a group with a multiplier.
C4_ParenthesisLaw ==
    pc = "done" =>
        \A k \in 1..Len(formula) :
            IsWrapAt(formula, k) =>
                result = Returned(int(SubSeq(formula, k + 1, Len(formula)))
                                  * mw(SubSeq(formula, 2, k - 1)).val)

\* C4 witness: "(X)n" where X is itself "(Y)m" and Y is "(Z)l", weighed.
C4_Witness ==
    /\ pc = "done" /\ result.err = "" /\ result.val > 0
    /\ \E k \in 1..Len(formula) :
          /\ IsWrapAt(formula, k)
          /\ LET x == SubSeq(formula, 2, k - 1)
             IN  \E j \in 1..Len(x) :
                    /\ IsWrapAt(x, j)
                    /\ \E i \in 1..(j - 2) : IsWrapAt(SubSeq(x, 2, j - 1), i)

\* C5: mw raises whenever the formula contains an element-symbol token that
\* is not a key of the atomic-weight table.
C5_UnknownSymbolRaises ==
    (pc = "done" /\ \E e \in Symbols(formula) : e \notin DOMAIN atomic_elements)
        => result.err # ""

\* C6 (as stated): mw raises the 'Unmatched parentheses' ValueError whenever
\* the formula contains a '(' with no matching ')'.
C6_AsStated ==
    (pc = "done" /\ HasUnmatchedOpen(formula)) => result = Raised("ValueError")

\* A digit run or a null-weight symbol stands before the first unmatched '('.
DigitOrNullBeforeUnmatched(s) ==
    LET first == CHOOSE i \in 1..Len(s) :
                    UnmatchedOpenAt(s, i) /\ \A j \in 1..(i - 1) : ~UnmatchedOpenAt(s, j)
    IN  \E j \in 1..(first - 1) :
            \/ s[j] \in Digit
            \/ s[j] \in Upper /\ SymbolAt(s, j) \in NullSymbols

\* C6 (amended): a formula with an unmatched '(' makes mw raise and return no
\* weight; the error is the 'Unmatched parentheses' ValueError unless a digit
\* run or a null-weight symbol before the first unmatched '(' raised first
\* (IndexError or TypeError).
C6_UnmatchedOpenRaises ==
    (pc = "done" /\ HasUnmatchedOpen(formula)) =>
        \/ result = Raised("ValueError")
        \/ /\ result.err \in {"IndexError", "TypeError"}
           /\ DigitOrNullBeforeUnmatched(formula)

\* C6 witness: after a closed group, an unmatched '(' inside another
\* unmatched '(' has raised ValueError.
C6_Witness ==
    /\ pc = "done" /\ result = Raised("ValueError")
    /\ Len(formula) > 0 /\ formula[1] = "(" /\ ~UnmatchedOpenAt(formula, 1)
    /\ \E i \in 2..Len(formula) :
          /\ UnmatchedOpenAt(formula, i)
          /\ \E j \in 1..(i - 1) : UnmatchedOpenAt(formula, j)

\* C7: mw raises for every formula whose parentheses are not balanced and
\* well nested, a ')' with no earlier '(' included.
C7_UnbalancedRaises ==
    (pc = "done" /\ ~Balanced(formula)) => result.err # ""

\* C8: a formula with a character that belongs to no token is invalid: mw
\* does not evaluate it with that character dropped.
C8_UntokenizedRaises ==
    (pc = "done" /\ ~AllInTokens(formula)) => result.err # ""

\* C9: mw raises, and returns no number, whenever the formula references a
\* symbol whose atomic weight in the table is null.
C9_NullWeightRaises ==
    (pc = "done" /\ \E e \in Symbols(formula) :
                        e \in DOMAIN atomic_elements /\ atomic_elements[e] = None)
        => result.err # ""

\* C9 witness: a null-weight symbol with a subscript inside a group with a
\* multiplier has made mw raise.
C9_Witness ==
    /\ pc = "done" /\ result.err = "TypeError"
    /\ \E i \in 2..Len(formula) :
          /\ formula[i] \in Upper /\ SymbolAt(formula, i) \in NullSymbols
          /\ formula[i - 1] = "("
          /\ i + Len(SymbolAt(formula, i)) + 2 <= Len(formula)
          /\ formula[i + Len(SymbolAt(formula, i))] \in Digit
          /\ formula[i + Len(SymbolAt(formula, i)) + 1] = ")"
          /\ formula[i + Len(SymbolAt(formula, i)) + 2] \in Digit

(***************************************************************************)
(* Claims about ChemicalEquation, checked under SpecEq.                    *)
(***************************************************************************)

\* The elements of a tally, and the count of one (0 when it is missing).
TallyElements(d) == {d[k].element : k \in 1..Len(d)}
TallyCount(d, e) ==
    IF e \in TallyElements(d)
    THEN (CHOOSE r \in {d[k] : k \in 1..Len(d)} : r.element = e).count
    ELSE 0

\* |x - y| <= 1e-4 for counts in units of 1/MolScale.
WithinTol(x, y) == Abs(x - y) * TolInverse <= MolScale

Constructed == pc = "done" /\ ce.err = ""

\* C1: balance is True if and only if every element symbol of either tally
\* has reactant and product counts within 1e-4, counts matched by symbol and
\* a symbol missing from one tally counting as 0 there.
C1_BalanceBySymbol ==
    Constructed =>
        (ce.balance <=>
            \A e \in TallyElements(ce.rct.element_counter)
                        \cup TallyElements(ce.prod.element_counter) :
                WithinTol(TallyCount(ce.rct.element_counter, e),
                          TallyCount(ce.prod.element_counter, e)))

\* C2: when some element symbol is in the tally of one side only, balance is
\* False.
C2_OneSidedUnbalanced ==
    (Constructed /\ TallyElements(ce.rct.element_counter)
                        # TallyElements(ce.prod.element_counter))
        => ce.balance = FALSE

\* The subscript of the symbol at s[i]: the digit run right after the symbol,
\* 1 when no digit follows.
SubscriptAt(s, i) ==
    LET j == i + Len(SymbolAt(s, i)) - 1
        k == RunEnd(s, j + 1, Digit)
    IN  IF k = j THEN 1 ELSE int(SubSeq(s, j + 1, k))

\* Sum of the subscripts of the occurrences of symbol e in s, read flat from
\* position i on.
RECURSIVE FlatCountFrom(_, _, _)
FlatCountFrom(s, e, i) ==
    IF i > Len(s) THEN 0
    ELSE (IF s[i] \in Upper /\ SymbolAt(s, i) = e THEN SubscriptAt(s, i) ELSE 0)
         + FlatCountFrom(s, e, i + 1)

FlatCount(s, e) == FlatCountFrom(s, e, 1)

\* Sum over the items k..n of a side of coefficient * flat count of e.
RECURSIVE FlatTallyFrom(_, _, _)
FlatTallyFrom(side, e, k) ==
    IF k > Len(side.species) THEN 0
    ELSE side.moles[k] * FlatCount(side.species[k], e) + FlatTallyFrom(side, e, k + 1)

FlatTally(side, e) == FlatTallyFrom(side, e, 1)

SideSymbols(side) == UNION {Symbols(side.species[k]) : k \in 1..Len(side.species)}

TheSides == IF ce.err = "" THEN {ce.rct, ce.prod} ELSE {}

\* C11: for each side, the element tally maps each element symbol to the
\* sum, over the side's items and over every occurrence of the symbol in the
\* item's resolved species formula, of coefficient * subscript (1 when no
\* digits follow); '2 HCl + 2 Na' gives {H: 2, Cl: 2, Na: 2} and
\* 'CH4 + 2.2 C + CH2OHCHO + CO2' gives {C: 6.2, H: 8, O: 4}.
C11_ElementTally ==
    Constructed =>
        /\ \A side \in TheSides :
              /\ TallyElements(side.element_counter) = SideSymbols(side)
              /\ Cardinality(TallyElements(side.element_counter))
                    = Len(side.element_counter)
              /\ \A e \in SideSymbols(side) :
                    TallyCount(side.element_counter, e) = FlatTally(side, e)
        /\ eq = DocEquation =>
              /\ TallyElements(ce.rct.element_counter) = {<<"H">>, <<"C", "l">>, <<"N", "a">>}
              /\ \A e \in TallyElements(ce.rct.element_counter) :
                    TallyCount(ce.rct.element_counter, e) = 2 * MolScale
        /\ (eq = TestEquation /\ names = TestNames) =>
              /\ TallyElements(ce.prod.element_counter) = {<<"C">>, <<"H">>, <<"O">>}
              /\ 10 * TallyCount(ce.prod.element_counter, <<"C">>) = 62 * MolScale
              /\ TallyCount(ce.prod.element_counter, <<"H">>) = 8 * MolScale
              /\ TallyCount(ce.prod.element_counter, <<"O">>) = 4 * MolScale

\* C11 witness: a side on which a symbol occurs twice inside one formula and
\* in several items, one of them with a decimal coefficient, has been tallied.
C11_Witness ==
    /\ Constructed
    /\ \E side \in TheSides : \E e \in SideSymbols(side) :
          /\ Cardinality({k \in 1..Len(side.species) : e \in Symbols(side.species[k])}) >= 3
          /\ \E k \in 1..Len(side.species) :
                Cardinality({i \in 1..Len(side.species[k]) :
                    side.species[k][i] \in Upper /\ SymbolAt(side.species[k], i) = e}) >= 2
          /\ \E k \in 1..Len(side.species) :
                e \in Symbols(side.species[k]) /\ side.moles[k] % MolScale # 0
          /\ TallyCount(side.element_counter, e) > MolScale

\* The symbol tokens of s that stand inside a parenthesised group whose
\* multiplier is greater than 1.
MultipliedAtoms(s) ==
    LET t == findall(s, 1)
    IN  {p \in 1..Len(t) :
            /\ IsSymbol(t[p])
            /\ \E g \in Enclosing(t, p) : FactorAfter(t, MatchOf(t, g)) > 1}

\* Count of element e in the fully expanded formula s.
RECURSIVE ExpandedCountFrom(_, _, _)
ExpandedCountFrom(t, e, p) ==
    IF p > Len(t) THEN 0
    ELSE (IF t[p] = e THEN AtomCount(t, p) ELSE 0) + ExpandedCountFrom(t, e, p + 1)

ExpandedCount(s, e) == ExpandedCountFrom(findall(s, 1), e, 1)

\* C12: the element tally scans the species formula flat: for an item whose
\* formula has a parenthesised group with a multiplier n > 1, each atom
\* inside the group is tallied as coefficient * its own subscript, the group
\* multiplier ignored, while the item's molecular weight and mass come from
\* the fully expanded formula.
C12_FlatTally ==
    Constructed =>
        \A side \in TheSides : \A k \in 1..Len(side.species) :
            (ValidFormula(side.species[k]) /\ MultipliedAtoms(side.species[k]) # {}) =>
                /\ side.molwt[k] = ExpandedWeight(side.species[k])
                /\ side.mass[k] = side.moles[k] * ExpandedWeight(side.species[k])
                /\ \A p \in MultipliedAtoms(side.species[k]) :
                      LET e == findall(side.species[k], 1)[p] IN
                      /\ TallyCount(side.element_counter, e) = FlatTally(side, e)
                      /\ FlatCount(side.species[k], e) < ExpandedCount(side.species[k], e)

\* C12 witness: an item 'n X(Y)m' with n, m > 1 stands on a side with another
\* item and has been tallied below its expanded count.
C12_Witness ==
    /\ Constructed
    /\ \E side \in TheSides : \E k \in 1..Len(side.species) :
          /\ Len(side.species) > 1
          /\ ValidFormula(side.species[k]) /\ side.moles[k] > MolScale
          /\ \E p \in MultipliedAtoms(side.species[k]) :
                LET e == findall(side.species[k], 1)[p] IN
                /\ TallyCount(side.element_counter, e)
                      = side.moles[k] * FlatCount(side.species[k], e)
                /\ TallyCount(side.element_counter, e)
                      < side.moles[k] * ExpandedCount(side.species[k], e)

\* Sum of the entries 1..n of a list.
RECURSIVE TotalTo(_, _)
TotalTo(list, n) == IF n = 0 THEN 0 ELSE TotalTo(list, n - 1) + list[n]

Total(list) == TotalTo(list, Len(list))

\* The fraction <<numerator, denominator>> is the quotient x / y, y not zero.
IsQuotient(frac, x, y) == y # 0 /\ frac = <<x, y>>

\* C13: for each side, total moles is the sum of the items' coefficients,
\* each item's mass is coefficient * mw(resolved species formula), total mass
\* is the sum of the item masses, and each item's mole fraction and mass
\* fraction are coefficient / total moles and mass / total mass.
C13_SideAggregates ==
    Constructed =>
        /\ \A side \in TheSides :
              /\ Len(side.moles) = Len(side.species)
              /\ Len(side.mass) = Len(side.species)
              /\ Len(side.mol_fracs) = Len(side.species)
              /\ Len(side.mass_fracs) = Len(side.species)
              /\ side.sum_moles = Total(side.moles)
              /\ side.sum_mass = Total(side.mass)
              /\ \A k \in 1..Len(side.species) :
                    /\ mw(side.species[k]).err = ""
                    /\ side.mass[k] = side.moles[k] * mw(side.species[k]).val
                    /\ Total(side.moles) # 0 =>
                          IsQuotient(side.mol_fracs[k], side.moles[k], Total(side.moles))
                    /\ Total(side.mass) # 0 =>
                          IsQuotient(side.mass_fracs[k], side.mass[k], Total(side.mass))
        /\ Len(ce.rct.species) = Len(ce.reactants)
        /\ Len(ce.prod.species) = Len(ce.products)
        /\ eq = DocEquation =>
              /\ ce.rct.sum_moles = 4 * MolScale
              /\ ce.rct.sum_mass = 118896 * MolScale
              /\ ce.rct.mass[1] = 72916 * MolScale
              /\ 2 * ce.rct.mol_fracs[1][1] = ce.rct.mol_fracs[1][2]

\* C13 witness: a side of at least three items with different coefficients,
\* one of them decimal, and different weights has been aggregated.
C13_Witness ==
    /\ Constructed
    /\ \E side \in TheSides :
          /\ Len(side.species) >= 3
          /\ Cardinality({side.moles[k] : k \in 1..Len(side.moles)}) >= 2
          /\ Cardinality({side.molwt[k] : k \in 1..Len(side.molwt)}) >= 3
          /\ \E k \in 1..Len(side.moles) : side.moles[k] % MolScale # 0
          /\ side.sum_mass > 0
          /\ \A k \in 1..Len(side.species) :
                IsQuotient(side.mass_fracs[k], side.mass[k], side.sum_mass)

\* The fractions of a list add up to 1: they are numbers (no division by
\* zero made them nan) over one denominator, which their numerators add up to.
SumsToOne(fracs) ==
    /\ Len(fracs) > 0
    /\ \A k \in 1..Len(fracs) : fracs[k][2] # 0 /\ fracs[k][2] = fracs[1][2]
    /\ Total([k \in 1..Len(fracs) |-> fracs[k][1]]) = fracs[1][2]

\* C14: for every successfully constructed ChemicalEquation, on the reactant
\* side and on the product side, the mole fractions sum to 1 and the mass
\* fractions sum to 1.
C14_FractionsSumToOne ==
    Constructed =>
        \A side \in TheSides : SumsToOne(side.mol_fracs) /\ SumsToOne(side.mass_fracs)

\* A '->' starts at s[i].
ArrowAt(s, i) == i < Len(s) /\ s[i] = "-" /\ s[i + 1] = ">"

HasArrow(s) == \E i \in 1..Len(s) : ArrowAt(s, i)

\* Where an item can begin (after the start of the text, a '+' or a '->') and
\* where it can end (before a '+', a '->' or the end of the text).
ItemStarts(s) == {0} \cup {i \in 1..Len(s) : s[i] = "+"}
                     \cup {i + 1 : i \in {j \in 1..Len(s) : ArrowAt(s, j)}}
ItemEnds(s) == {Len(s) + 1} \cup {i \in 1..Len(s) : s[i] = "+" \/ ArrowAt(s, i)}

\* Nothing but spaces stands between the separators at a and b.
EmptyBetween(s, a, b) == a < b /\ \A k \in (a + 1)..(b - 1) : s[k] \in Whitespace

\* A clause or a '+'-separated item of the text is empty.
HasEmptyItem(s) == \E a \in ItemStarts(s) : \E b \in ItemEnds(s) : EmptyBetween(s, a, b)

\* C17: constructing a ChemicalEquation from text with no '->', or whose
\* reactant clause, product clause or any '+'-separated item is empty, raises
\* an error during construction and yields no object.
C17_MalformedRaises ==
    (pc = "done" /\ (~HasArrow(eq) \/ HasEmptyItem(eq)))
        => ce.err # "" /\ ce = NoObject(ce.err)

\* C17 witness: a text with an arrow whose first item is a formula and whose
\* item after a '+' is empty has raised.
C17_Witness ==
    /\ pc = "done" /\ ce.err = "IndexError"
    /\ HasArrow(eq) /\ eq[1] \in Upper
    /\ \E a \in 1..Len(eq) : \E b \in ItemEnds(eq) :
          eq[a] = "+" /\ EmptyBetween(eq, a, b)

\* Position of the first space of an item, Len + 1 when it has none.
FirstSpace(item) ==
    IF \E i \in 1..Len(item) : item[i] = " "
    THEN CHOOSE i \in 1..Len(item) : item[i] = " " /\ \A j \in 1..(i - 1) : item[j] # " "
    ELSE Len(item) + 1

\* The display name of a trimmed item: the text after the first space when
\* the item starts with a digit, else the whole item.
DisplayName(item) ==
    IF Len(item) > 0 /\ item[1] \in Digit
    THEN SubSeq(item, FirstSpace(item) + 1, Len(item))
    ELSE item

\* The resolved species formulas of the items written in the text.
ResolvedSpecies(text, nm) ==
    LET items(pe) == {pe.reactants[k] : k \in 1..Len(pe.reactants)}
                        \cup {pe.products[k] : k \in 1..Len(pe.products)}
    IN  {resolve(nm, DisplayName(c)) : c \in items(_parse_equation(text))}

\* C18: if the resolved species formula of any item on either side contains
\* an unknown element symbol or an unmatched parenthesis, construction raises
\* and no object is produced, whichever item or side holds the formula (a
\* process name such as 'CHAR' used without a names entry, for one).
C18_BadFormulaRaises ==
    (pc = "done" /\ \E sp \in ResolvedSpecies(eq, names) :
                        \/ \E e \in Symbols(sp) : e \notin DOMAIN atomic_elements
                        \/ HasUnmatchedOpen(sp))
        => ce.err # "" /\ ce = NoObject(ce.err)

\* Item k of a side was read as the claim says: coefficient and display name
\* split at the first space when the item starts with a digit.
ReadAtFirstSpace(item, side, k) ==
    /\ side.species[k] = resolve(ce.names, DisplayName(item))
    /\ IF item[1] \in Digit
       THEN side.moles[k] = float(SubSeq(item, 1, FirstSpace(item) - 1)).val
       ELSE side.moles[k] = MolScale

\* C19: for each '+'-separated, trimmed item: if its first character is a
\* digit, the coefficient is the float value of the text before the first
\* space and the display name is the text after it (decimal coefficients
\* included); otherwise the coefficient is 1.0 and the display name is the
\* whole trimmed item.
C19_CoefficientAndName ==
    Constructed =>
        /\ \A k \in 1..Len(ce.reactants) : ReadAtFirstSpace(ce.reactants[k], ce.rct, k)
        /\ \A k \in 1..Len(ce.products) : ReadAtFirstSpace(ce.products[k], ce.prod, k)

\* The coefficient written in a trimmed item.
Coefficient(item) ==
    IF item[1] \in Digit THEN float(SubSeq(item, 1, FirstSpace(item) - 1)).val
    ELSE MolScale

\* Two items of the side are written with the same display name.
HasDuplicates(items) ==
    \E j, k \in 1..Len(items) : j < k /\ DisplayName(items[j]) = DisplayName(items[k])

\* Every occurrence is an item of its own in the side's lists, and all of
\* them add into the side's totals and tally.
KeptApart(items, side) ==
    /\ Len(side.species) = Len(items)
    /\ Len(side.moles) = Len(items)
    /\ Len(side.molwt) = Len(items)
    /\ Len(side.mass) = Len(items)
    /\ \A j, k \in 1..Len(items) :
          DisplayName(items[j]) = DisplayName(items[k]) =>
              /\ side.species[j] = side.species[k]
              /\ side.moles[j] = Coefficient(items[j])
              /\ side.moles[k] = Coefficient(items[k])
    /\ side.sum_moles = Total([k \in 1..Len(items) |-> Coefficient(items[k])])
    /\ side.sum_mass = Total(side.mass)
    /\ \A e \in SideSymbols(side) :
          TallyCount(side.element_counter, e) = FlatTally(side, e)

\* C20: if the same display name occurs more than once on one side, each
\* occurrence is kept as a separate item in the per-side lists, and the
\* coefficients, masses and element counts of all occurrences add into the
\* side's total moles, total mass and element tally.
C20_DuplicatesKept ==
    Constructed =>
        /\ HasDuplicates(ce.reactants) => KeptApart(ce.reactants, ce.rct)
        /\ HasDuplicates(ce.products) => KeptApart(ce.products, ce.prod)

\* C20 witness: a side with the same display name twice under different
\* coefficients has been constructed.
C20_Witness ==
    /\ Constructed
    /\ \E j, k \in 1..Len(ce.products) :
          /\ j < k /\ DisplayName(ce.products[j]) = DisplayName(ce.products[k])
          /\ ce.prod.moles[j] # ce.prod.moles[k]
          /\ ce.prod.moles[j] > 0 /\ ce.prod.moles[k] > 0
          /\ ce.prod.sum_moles = ce.prod.moles[j] + ce.prod.moles[k]
          /\ ce.prod.sum_mass = ce.prod.mass[j] + ce.prod.mass[k]
          /\ ce.prod.sum_mass > 0

\* The digit tokens the mw call on the formula processed.
DigitSteps == digit_steps(atomic_elements, findall(formula, 1), <<>>, <<>>, NothingAppended)

\* C24: whenever mw multiplies by a digit run, the token processed just
\* before the digits is an element symbol or the ')' of a group that was
\* evaluated, the top of the list is the weight that token appended, and the
\* multiplication changes that entry and no other.
C24_DigitsMultiplyPrecedingUnit ==
    pc = "done" =>
        \A k \in 1..Len(DigitSteps) :
            LET step == DigitSteps[k] IN
            step.err = "" =>
                /\ step.unit.appended
                /\ step.stack[Len(step.stack)] = step.unit.weight
                /\ step.left = [step.stack EXCEPT
                                    ![Len(step.stack)] = step.unit.weight * int(step.digits)]

\* A digit run of s has no unit before it at its nesting level: it opens the
\* formula or directly follows a '('.
LeadingDigitsAt(s, i) == s[i] \in Digit /\ (i = 1 \/ s[i - 1] = "(")
HasLeadingDigits(s) == \E i \in 1..Len(s) : LeadingDigitsAt(s, i)

\* C29: mw raises on every formula with a digit run at its very start or
\* directly after a '(': the digits are not skipped and multiply no unit
\* standing before the '('.
C29_LeadingDigitsRaise ==
    (pc = "done" /\ HasLeadingDigits(formula)) => result.err # ""

\* A formula of tabulated symbols and balanced parentheses in which a unit
\* stands before a '(' that is directly followed by digits ('C(2O)').
C29_Witness ==
    /\ pc = "done"
    /\ WellFormed(formula)
    /\ \E i \in 3..Len(formula) :
          /\ LeadingDigitsAt(formula, i)
          /\ formula[i - 2] \in Upper
    /\ result = Raised("IndexError")

\* Number of '->' in s.
ArrowCount(s) == Cardinality({i \in 1..Len(s) : ArrowAt(s, i)})

\* C25: constructing a ChemicalEquation from a text with more than one '->'
\* raises; no object is built from the text before the second arrow alone.
C25_SecondArrowRejected ==
    (pc = "done" /\ ArrowCount(eq) > 1) => ce.err # ""

\* The species formula is made of tabulated element symbols and digit runs
\* alone: no parenthesis, no other character, no unknown symbol.
PlainKnown(sp) ==
    /\ AllInTokens(sp)
    /\ \A i \in 1..Len(sp) : sp[i] \notin {"(", ")"}
    /\ Symbols(sp) \subseteq KnownSymbols

PlainKnownSide(side) == \A k \in 1..Len(side.species) : PlainKnown(side.species[k])

\* |x - y| <= 1e-4 g for masses in units of 1/(1000 * MolScale) g.
MassWithinTol(x, y) == Abs(x - y) <= (1000 * MolScale) \div TolInverse

\* C26: when balance is True and every resolved species formula is
\* parenthesis-free with known symbols only, the total reactant mass equals
\* the total product mass within the tolerance.
C26_BalancedConservesMass ==
    (Constructed /\ ce.balance /\ PlainKnownSide(ce.rct) /\ PlainKnownSide(ce.prod))
        => MassWithinTol(ce.rct.sum_mass, ce.prod.sum_mass)

\* The items of a side in the order given by the permutation f of their
\* positions.
Permuted(items, f) == [k \in 1..Len(items) |-> items[f[k]]]

\* C27: the balance flag of a constructed equation is the flag of every
\* equation that has the same items in another order within the reactant
\* clause or within the product clause.
C27_BalanceOrderIndependent ==
    (Constructed /\ ArrowCount(eq) = 1) =>
        /\ \A f \in Permutations(1..Len(ce.reactants)) :
              ChemicalEquation(Render(Permuted(ce.reactants, f), ce.products),
                               names).balance = ce.balance
        /\ \A f \in Permutations(1..Len(ce.products)) :
              ChemicalEquation(Render(ce.reactants, Permuted(ce.products, f)),
                               names).balance = ce.balance

\* Sum over the elements of `elements` of tally count * atomic weight.
RECURSIVE TallyMassFrom(_, _)
TallyMassFrom(d, k) ==
    IF k > Len(d) THEN 0
    ELSE d[k].count * atomic_elements[d[k].element] + TallyMassFrom(d, k + 1)

TallyMass(d) == TallyMassFrom(d, 1)

\* C28: on a side whose resolved species formulas are parenthesis-free with
\* known symbols only, the total mass, which comes from the formula parser,
\* is the sum over the tallied elements of tally[element] * atomic weight.
C28_ParserAndTallyAgree ==
    Constructed =>
        \A side \in TheSides :
            PlainKnownSide(side) => side.sum_mass = TallyMass(side.element_counter)

\* C28 witness: a side of two items with different formulas, one with a
\* coefficient above 1 and a subscript above 1, sharing an element.
C28_Witness ==
    /\ Constructed
    /\ \E side \in TheSides :
          /\ PlainKnownSide(side)
          /\ Len(side.species) = 2
          /\ side.species[1] # side.species[2]
          /\ Symbols(side.species[1]) \cap Symbols(side.species[2]) # {}
          /\ \E k \in 1..2 :
                /\ side.moles[k] > MolScale
                /\ \E i \in 1..Len(side.species[k]) :
                      side.species[k][i] \in Upper /\ SubscriptAt(side.species[k], i) > 1
          /\ side.sum_mass = TallyMass(side.element_counter)
          /\ side.sum_mass > 0

(***************************************************************************)
(* Claims about sequences of calls, checked under Spec.                    *)
(***************************************************************************)

\* The lookup made last found item k of the side and returned its properties.
Found(side, k) == props = [err |-> "", val |-> side_props(side, k)]

\* C15: when names maps an item's display token to a formula, the item's
\* molecular weight and element counts come from the mapped formula, while
\* reactant_props / product_props identify the item by the token written in
\* the equation ('GCO2' with species 'CO2'), not by the substituted formula.
C15_AliasKeepsDisplayName ==
    (ce.err = "" /\ ~ce.names.none) =>
        /\ \A k \in 1..Len(ce.reactants) :
              DisplayName(ce.reactants[k]) \in DOMAIN ce.names.dict =>
                /\ ce.rct.molwt[k] = mw(ce.names.dict[DisplayName(ce.reactants[k])]).val
                /\ (call.op = "reactant_props" /\ call.text = DisplayName(ce.reactants[k]))
                      => Found(ce.rct, k)
        /\ \A k \in 1..Len(ce.products) :
              DisplayName(ce.products[k]) \in DOMAIN ce.names.dict =>
                /\ ce.prod.molwt[k] = mw(ce.names.dict[DisplayName(ce.products[k])]).val
                /\ (call.op = "product_props" /\ call.text = DisplayName(ce.products[k]))
                      => Found(ce.prod, k)

\* The display names of the items of a side.
DisplayNames(items) == {DisplayName(items[k]) : k \in 1..Len(items)}

\* C16: reactant_props(name) raises a not-found error when no reactant item
\* has that name, product_props(name) when no product item has it, even if
\* the other side has such an item; the failed lookup leaves every attribute
\* of the ChemicalEquation as the construction set it.
C16_LookupNotFound ==
    ce.err = "" =>
        /\ (call.op = "reactant_props" /\ call.text \notin DisplayNames(ce.reactants))
              => props.err = "ValueError" /\ ce = ChemicalEquation(eq, names)
        /\ (call.op = "product_props" /\ call.text \notin DisplayNames(ce.products))
              => props.err = "ValueError" /\ ce = ChemicalEquation(eq, names)

\* What a call returns in isolation: made first, on the table as loaded.
IsolatedMw(f) == parse_in(ElementTable, findall(f, 1), <<>>).res

\* C10: in any sequence of mw calls and ChemicalEquation constructions, each
\* call returns what it would return in isolation for the same inputs, and
\* no call modifies the atomic-weight table or the names mapping passed in.
C10_ReferentiallyTransparent ==
    /\ atomic_elements = ElementTable
    /\ call.op = "mw" => result = IsolatedMw(call.text)
    /\ call.op = "ChemicalEquation" =>
          /\ names = call.names
          /\ ce.err = "" => ce.names = call.names /\ ce.eq = call.text
          /\ \A side \in {"rct", "prod"} :
                LET p == IF side = "rct" THEN ce.rct ELSE ce.prod IN
                \A k \in 1..Len(p.species) :
                    p.molwt[k] = IsolatedMw(p.species[k]).val

\* C10 witness: an mw call that returned a weight, made after a construction
\* and at least one other call.
C10_Witness ==
    /\ calls >= 3 /\ call.op = "mw"
    /\ result.err = "" /\ result.val > 0
    /\ ce.err = "" /\ Len(stack) > 1

(***************************************************************************)
(* Claims about flow_regime, checked under SpecRegime.                     *)
(***************************************************************************)
\* An argument was supplied: it is not None.
Supplied(x) == ~x.none

\* The regime of the number r by the documented limits.
RegimeOf(r) ==
    IF r < 2100 THEN "laminar" ELSE IF r <= 4000 THEN "transitional" ELSE "turbulent"

\* C21: flow_regime returns the regime of every supplied Re (laminar below
\* 2100, transitional from 2100 to 4000, turbulent above 4000) whatever the
\* other arguments are, and raises ValueError only when Re is not supplied
\* and neither u, d, rho, mu nor u, d, nu are all supplied.
C21_RegimeOfSuppliedRe ==
    pc = "done" =>
        /\ Supplied(args.Re) => result = [err |-> "", val |-> RegimeOf(args.Re.v)]
        /\ result.err = "ValueError" =>
              /\ ~Supplied(args.Re)
              /\ ~(Supplied(args.u) /\ Supplied(args.d)
                      /\ Supplied(args.rho) /\ Supplied(args.mu))
              /\ ~(Supplied(args.u) /\ Supplied(args.d) /\ Supplied(args.nu))

(***************************************************************************)
(* Claims about the Gas class, checked under SpecGas.                      *)
(***************************************************************************)
PropertyCalls == {"heat_capacity", "thermal_conductivity", "viscosity"}

\* The rows of the data file of a viscosity method; none for any other method.
ViscosityRows(method) ==
    IF method = "yaws" THEN MuYawsRows
    ELSE IF method = "ludwig" THEN MuLudwigRows
    ELSE <<>>

\* The method whose coefficients served the last viscosity call: the one the
\* object keeps, the requested one when it keeps none.
ServedMethod ==
    IF gas._mu_state.method # "None" THEN gas._mu_state.method ELSE call.text[1]

\* The rows of the data file the last property call was served from.
ServedRows ==
    IF call.op = "heat_capacity" THEN CpYawsRows
    ELSE IF call.op = "thermal_conductivity" THEN KYawsRows
    ELSE ViscosityRows(ServedMethod)

\* The tabulated row of the gas in `table`, by its CAS number or its formula.
TabulatedRow(table) == _get_row(table, gas.formula, gas.cas_number)

C23_RequestedMethodUsed ==
    call.op = "viscosity" /\ result.err = "" =>
        LET m == call.text[1]
        IN  /\ m \in {"yaws", "ludwig"}
            /\ TabulatedRow(ViscosityRows(m)).err = ""
            /\ result.val = polynomial(TabulatedRow(ViscosityRows(m)).row.coeffs,
                                       IF m = "yaws" THEN 4 ELSE 3, gas.temperature)

\* C30: a property call that raises leaves _cp_state, _k_state and _mu_state
\* as they were, and a property call that returns leaves the states of the
\* other two properties as they were.
C30_CallsChangeOwnStateOnly ==
    [][calls' = calls + 1 /\ call'.op \in PropertyCalls =>
          /\ result'.err # "" =>
                /\ gas'._cp_state = gas._cp_state
                /\ gas'._k_state = gas._k_state
                /\ gas'._mu_state = gas._mu_state
          /\ call'.op # "heat_capacity" => gas'._cp_state = gas._cp_state
          /\ call'.op # "thermal_conductivity" => gas'._k_state = gas._k_state
          /\ call'.op # "viscosity" => gas'._mu_state = gas._mu_state]_vars

\* A viscosity call raised on an object that keeps heat-capacity and
\* thermal-conductivity states and no viscosity state.
C30_Witness ==
    /\ call.op = "viscosity"
    /\ result.err = "ValueError"
    /\ gas._cp_state.method = "yaws"
    /\ gas._k_state.method = "yaws"
    /\ gas._mu_state = NoState

====
